---- MODULE Spec2Model ----
(***************************************************************************)
(* Debt repayment engine of the debt-management assistant                  *)
(* (utils/financial-calculations.ts): the three ordering policies and the  *)
(* month-by-month simulation of calculateDebtStrategy.                     *)
(*                                                                         *)
(* Money is held in fixed point, in hundredths of a currency unit, so that *)
(* the code's threshold 0.01 is the integer 1; a product that the code     *)
(* divides (the monthly interest) is rounded down to a hundredth.  Annual  *)
(* rates are whole percentages.                                            *)
(***************************************************************************)
EXTENDS Integers, Sequences, FiniteSets, TLC

(* ------------------------------------------------------------------ *)
(* Bounds and program constants                                        *)
(* ------------------------------------------------------------------ *)

\* Longest debt list handed to a strategy.
MaxDebts == 2

\* The safety limit of the while loop (50 years).
MaxMonths == 600

\* A currency amount, in hundredths.
Amount(units) == units * 100

\* The paid-off threshold 0.01.
Epsilon == Amount(1) \div 100

\* The debts a caller can put in a list: id, balance, annual rate (percent),
\* minimum payment.  A and B are the two-debt example, C amortizes on its
\* minimum alone, Y has a minimum below its monthly interest, Z is already
\* paid off.  C and Y tie on balance and on rate.
DebtChoices ==
    { [id |-> "A", balance |-> Amount(500),  interestRate |-> 20, minimumPayment |-> Amount(50)],
      [id |-> "B", balance |-> Amount(5000), interestRate |-> 10, minimumPayment |-> Amount(100)],
      [id |-> "C", balance |-> Amount(1200), interestRate |-> 12, minimumPayment |-> Amount(200)],
      [id |-> "Y", balance |-> Amount(1200), interestRate |-> 12, minimumPayment |-> Amount(10)],
      [id |-> "Z", balance |-> 0,            interestRate |-> 12, minimumPayment |-> Amount(25)] }

PaymentChoices == { Amount(150), Amount(200), Amount(360) }

Strategies == { "snowball", "avalanche", "hybrid" }

(* ------------------------------------------------------------------ *)
(* Helpers                                                             *)
(* ------------------------------------------------------------------ *)

Min(a, b) == IF a <= b THEN a ELSE b

Range(s) == { s[k] : k \in DOMAIN s }

\* Array.prototype.includes
Includes(s, x) == \E k \in DOMAIN s : s[k] = x

\* Debt lists of at most n debts with pairwise distinct ids.
RECURSIVE DebtLists(_)
DebtLists(n) ==
    IF n = 0 THEN { << >> }
    ELSE LET shorter == DebtLists(n - 1)
         IN  shorter \cup
             { Append(s, d) : s \in { t \in shorter : Len(t) = n - 1 },
                              d \in DebtChoices } 

DistinctIds(s) == \A j, k \in DOMAIN s : j # k => s[j].id # s[k].id

RECURSIVE SumOver(_, _)
\* reduce((sum, x) => sum + x.f, 0), left to right; f names the field.
SumOver(s, f) ==
    IF s = << >> THEN 0
    ELSE SumOver(SubSeq(s, 1, Len(s) - 1), f) + s[Len(s)][f]

(* ------------------------------------------------------------------ *)
(* Ordering policies                                                   *)
(* ------------------------------------------------------------------ *)

\* debt.hybridScore = (balance / 10000) * 0.4 + interestRate * 0.6, times
\* 10 * 10000 * 100 so that it is a whole number of the fixed-point units.
HybridScore(d) == 4 * d.balance + 6 * d.interestRate * Amount(10000)

\* The three comparators handed to sort: negative when a goes first.
SnowballCompare(a, b) == a.balance - b.balance

\* Mutant: avalanche sorts the lowest rate first.
AvalancheCompareAscending(a, b) == a.interestRate - b.interestRate

AvalancheCompare(a, b) == b.interestRate - a.interestRate

HybridCompare(a, b) == HybridScore(a) - HybridScore(b)

Compare(strat, a, b) ==
    CASE strat = "snowball"  -> SnowballCompare(a, b)
      [] strat = "avalanche" -> AvalancheCompare(a, b)
      [] strat = "hybrid"    -> HybridCompare(a, b)

\* Where a stable sort puts x in the sorted sequence t: before the first
\* element that compares greater than x, after every element that does not.
InsertAt(t, x, strat) ==
    LET later == { k \in DOMAIN t : Compare(strat, t[k], x) > 0 }
    IN  IF later = {} THEN Len(t) + 1
        ELSE CHOOSE k \in later : \A m \in later : k <= m

\* Mutant: an element that ties with one already placed is dropped.
InsertDroppingTies(t, x, strat) ==
    LET p == InsertAt(t, x, strat)
    IN  IF \E k \in DOMAIN t : Compare(strat, t[k], x) = 0 THEN t
        ELSE SubSeq(t, 1, p - 1) \o << x >> \o SubSeq(t, p, Len(t))

Insert(t, x, strat) ==
    LET p == InsertAt(t, x, strat)
    IN  SubSeq(t, 1, p - 1) \o << x >> \o SubSeq(t, p, Len(t))

RECURSIVE SortDebts(_, _)
\* [...debts].sort(compare): Array.prototype.sort is stable.
SortDebts(s, strat) ==
    IF s = << >> THEN << >>
    ELSE Insert(SortDebts(SubSeq(s, 1, Len(s) - 1), strat), s[Len(s)], strat)

(* ------------------------------------------------------------------ *)
(* State                                                               *)
(* ------------------------------------------------------------------ *)

VARIABLES
    pc,                \* "idle", "loop" (at the while test), "returned", "thrown"
    debts,             \* the caller's debt array
    availablePayment,  \* the caller's monthly budget
    strategy,          \* the label passed to calculateDebtStrategy
    sortedDebts,       \* the ordered list handed to calculateDebtStrategy
    debtCopies,        \* the simulation's own copies
    paymentSchedule,
    debtOrder,
    month,
    totalInterest,
    totalMinimums,
    payments,          \* the local `payment` of each debt in the last month (0: skipped)
    paidDown,          \* debt.balance right after `debt.balance -= principalPayment`
    callerDebts,       \* the caller's array as it reads now: its order, its records
    copiesShared,      \* TRUE when the records of debtCopies are the caller's own
    result             \* the DebtAnalysis returned, or NoResult

\* A direct call to validateDebts or calculateDebtMetrics (on debts).
VARIABLES
    monthlyIncome,     \* the monthlyIncome argument of calculateDebtMetrics
    errors,            \* what validateDebts returned last
    metrics,           \* what calculateDebtMetrics returned last
    called             \* the library function called last, or "none"

libVars == << monthlyIncome, errors, metrics, called >>

\* The GeminiService instance and the calls made to it.
VARIABLES
    now,               \* Date.now()
    configured,        \* this.model !== null
    requestCount,
    lastRequestTime,
    admitted,          \* the times checkRateLimit returned true in the last requestInterval
    awaiting,          \* the method calls suspended at `await this.model.generateContent`
    settled            \* how the method call that ended last ended, or NoCall

serviceVars == << now, configured, requestCount, lastRequestTime, admitted,
                  awaiting, settled >>

\* The App component, the DebtForm and the DebtAnalysis it renders.
VARIABLES
    currentView,          \* "landing", "form", "analysis"
    financialProfile,     \* useLocalStorage('debt-profile', null)
    currentStep,          \* DebtForm
    profile,              \* DebtForm: the profile being edited
    formErrors,           \* DebtForm: the keys of `errors`
    analyses,             \* DebtAnalysis
    history,              \* DebtAnalysis: the value of useConversationHistory
    aiRecommendations,
    isLoadingAI,
    followUpQuestion,
    conversationResponse,
    pending,              \* DebtAnalysis: the handlers suspended at an await of the service
    simulated,            \* the debt lists the mounted DebtAnalysis gave to the strategies
    handled               \* the service response a handler of DebtAnalysis resumed with last

formVars == << currentStep, profile, formErrors >>

analysisVars == << analyses, history, aiRecommendations, isLoadingAI,
                   followUpQuestion, conversationResponse, pending, simulated,
                   handled >>

appVars == << currentView, financialProfile, formVars, analysisVars >>

\* What outlives a DebtAnalysis: the stored conversation history and the
\* handlers that were suspended when their component was unmounted.
VARIABLES
    storedHistory,        \* localStorage['debt-conversation-history'], parsed
    entriesMade,          \* the conversation entries made so far
    orphaned              \* the follow-up handlers of unmounted components

conversationVars == << storedHistory, entriesMade, orphaned >>

\* Everything a strategy call leaves alone.
besidesStrategy == << libVars, serviceVars, appVars, conversationVars >>

vars == << pc, debts, availablePayment, strategy, sortedDebts, debtCopies,
           paymentSchedule, debtOrder, month, totalInterest, totalMinimums,
           payments, paidDown, callerDebts, copiesShared, result,
           besidesStrategy >>

NoResult == [strategy |-> "none"]

NoMetrics == [totalDebt |-> 0]

NoCall == [method |-> "none"]

\* The clock when the page loads: Date.now() is far more than
\* requestInterval past the initial lastRequestTime of 0.
PageLoadTime == 60001

\* The service as constructed, with a usable API key.
ServiceAtRest ==
    /\ now = PageLoadTime
    /\ configured = TRUE
    /\ requestCount = 0
    /\ lastRequestTime = 0
    /\ admitted = << >>
    /\ awaiting = << >>
    /\ settled = NoCall

\* JSON null
NoProfile == [none |-> TRUE]

\* The profile a DebtForm without initialData starts from.
BlankProfile == [monthlyIncome |-> 0, expenses |-> 0, debts |-> << >>]

\* useState({}): no strategy has a result.
NoAnalyses == << >>

NothingHandled == [kind |-> "none"]

\* The state of a DebtForm that is not mounted.
FormAtRest ==
    /\ currentStep = 1
    /\ profile = BlankProfile
    /\ formErrors = {}

\* The state of a DebtAnalysis that is not mounted.
AnalysisAtRest ==
    /\ analyses = NoAnalyses
    /\ history = << >>
    /\ aiRecommendations = ""
    /\ isLoadingAI = FALSE
    /\ followUpQuestion = ""
    /\ conversationResponse = ""
    /\ pending = << >>
    /\ simulated = << >>
    /\ handled = NothingHandled

\* No conversation has been stored and no handler is left over.
ConversationAtRest ==
    /\ storedHistory = << >>
    /\ entriesMade = 0
    /\ orphaned = << >>

\* The App as first rendered, with nothing in localStorage.
AppAtRest ==
    /\ currentView = "landing"
    /\ financialProfile = NoProfile
    /\ FormAtRest
    /\ AnalysisAtRest
    /\ ConversationAtRest

\* No library function has been called.
LibAtRest ==
    /\ monthlyIncome = 0
    /\ errors = << >>
    /\ metrics = NoMetrics
    /\ called = "none"

Init ==
    /\ pc = "idle"
    /\ debts \in { s \in DebtLists(MaxDebts) : DistinctIds(s) }
    /\ availablePayment \in PaymentChoices
    /\ strategy = "none"
    /\ sortedDebts = << >>
    /\ debtCopies = << >>
    /\ paymentSchedule = << >>
    /\ debtOrder = << >>
    /\ month = 1
    /\ totalInterest = 0
    /\ totalMinimums = 0
    /\ payments = << >>
    /\ paidDown = << >>
    /\ callerDebts = debts
    /\ copiesShared = FALSE
    /\ result = NoResult
    /\ LibAtRest
    /\ ServiceAtRest
    /\ AppAtRest

(* ------------------------------------------------------------------ *)
(* calculateDebtStrategy                                               *)
(* ------------------------------------------------------------------ *)

\* Mutant: the test rejects a budget equal to the minimums.
InsufficientPaymentOrEqual(minimums, available) == minimums >= available

\* Mutant: the test never rejects a budget.
InsufficientPaymentNever(minimums, available) == FALSE

\* if (totalMinimums > availablePayment) throw
InsufficientPayment(minimums, available) == minimums > available

\* What a strategy's first statement leaves behind: the caller's array, the
\* sorted array, and whether the sorted array holds the caller's own records.
\* [...debts].sort(compare) sorts a new array of the same records.
SpreadAndSort(ds, strat) ==
    [ caller |-> ds, sorted |-> SortDebts(ds, strat), shared |-> TRUE ]

\* debts.map(debt => ({ ...debt, hybridScore })).sort(compare) sorts a new
\* array of new records.
MapAndSort(ds, strat) ==
    [ caller |-> ds, sorted |-> SortDebts(ds, strat), shared |-> FALSE ]

\* Mutant: the records are handed to the simulation without being copied.
DebtCopiesSharedNoSpread(shared) == shared

\* sortedDebts.map(debt => ({ ...debt })): the copies are new records,
\* whoever owns the records of sortedDebts.
DebtCopiesShared(shared) == FALSE

\* The caller's array after the simulation wrote to its copies: a write
\* reaches the caller's record with the same id only when the copies are
\* the caller's own records.
WriteThrough(caller, copies, shared) ==
    IF ~shared THEN caller
    ELSE [ j \in DOMAIN caller |->
             IF \E k \in DOMAIN copies : copies[k].id = caller[j].id
             THEN copies[CHOOSE k \in DOMAIN copies : copies[k].id = caller[j].id]
             ELSE caller[j] ]

\* The body of calculateDebtStrategy up to the while loop.  debtCopies is
\* sortedDebts.map(debt => ({ ...debt })): records are values here, so the
\* copy is the list itself.  The hybridScore field that calculateHybridStrategy
\* adds to its copies is read by its comparator only and is left out.
EnterDebtStrategy(arrays, label) ==
    LET sorted   == arrays.sorted
        copies   == sorted
        minimums == SumOver(copies, "minimumPayment")
    IN  /\ strategy' = label
        /\ callerDebts' = arrays.caller
        /\ copiesShared' = DebtCopiesShared(arrays.shared)
        /\ sortedDebts' = sorted
        /\ debtCopies' = copies
        /\ paymentSchedule' = << >>
        /\ debtOrder' = << >>
        /\ month' = 1
        /\ totalInterest' = 0
        /\ totalMinimums' = minimums
        /\ payments' = [k \in DOMAIN copies |-> 0]
        /\ paidDown' = [k \in DOMAIN copies |-> copies[k].balance]
        /\ pc' = IF InsufficientPayment(minimums, availablePayment)
                 THEN "thrown" ELSE "loop"
        /\ UNCHANGED << debts, availablePayment, result, besidesStrategy >>

CalculateSnowballStrategy ==
    /\ pc = "idle"
    /\ EnterDebtStrategy(SpreadAndSort(callerDebts, "snowball"), "snowball")

CalculateAvalancheStrategy ==
    /\ pc = "idle"
    /\ EnterDebtStrategy(SpreadAndSort(callerDebts, "avalanche"), "avalanche")

CalculateHybridStrategy ==
    /\ pc = "idle"
    /\ EnterDebtStrategy(MapAndSort(callerDebts, "hybrid"), "hybrid")

\* Mutant: the rate is taken as a fraction, not a percentage.
InterestPaymentNoPercent(balance, annualRate) == (balance * annualRate) \div 12

\* debt.balance * calculateMonthlyRate(debt.interestRate), annualRate / 100 / 12
InterestPayment(balance, annualRate) == (balance * annualRate) \div (100 * 12)

\* if (extraPayment > 0 && i === 0): i is the 0-based index, k the 1-based one.
ReceivesExtra(extraPayment, k) == extraPayment > 0 /\ k = 1

\* Mutant: the interest is not taken out of the payment.
PrincipalPaymentWithInterest(payment, interestPayment, balance) ==
    Min(payment, balance)

\* Mutant: the principal is not capped by the balance.
PrincipalPaymentUncapped(payment, interestPayment, balance) ==
    payment - interestPayment

\* Math.min(payment - interestPayment, debt.balance)
PrincipalPayment(payment, interestPayment, balance) ==
    Min(payment - interestPayment, balance)

\* Mutant: the includes test is not negated.
PaidOffNowNotNegated(balance, id, order) == balance <= Epsilon /\ Includes(order, id)

\* Mutant: the payoff is recorded only once the balance is below zero.
PaidOffNowBelowZero(balance, id, order) == balance < 0 /\ ~Includes(order, id)

\* if (debt.balance <= 0.01 && !debtOrder.includes(debt.id))
PaidOffNow(balance, id, order) == balance <= Epsilon /\ ~Includes(order, id)

\* One pass of the for loop body over debt k; st holds the loop's locals.
ProcessDebt(st, k) ==
    LET debt == st.debtCopies[k]
    IN  IF debt.balance <= Epsilon THEN st
        ELSE
        LET interestPayment == InterestPayment(debt.balance, debt.interestRate)
            extra     == ReceivesExtra(st.extraPayment, k)
            payment   == debt.minimumPayment + (IF extra THEN st.extraPayment ELSE 0)
            principalPayment == PrincipalPayment(payment, interestPayment, debt.balance)
            balance   == debt.balance - principalPayment
            paid      == PaidOffNow(balance, debt.id, st.debtOrder)
        IN  [ debtCopies       |-> [st.debtCopies EXCEPT
                                       ![k].balance = IF paid THEN 0 ELSE balance],
              debtOrder        |-> IF paid THEN Append(st.debtOrder, debt.id)
                                   ELSE st.debtOrder,
              monthlyInterest  |-> st.monthlyInterest + interestPayment,
              monthlyPrincipal |-> st.monthlyPrincipal + principalPayment,
              extraPayment     |-> IF extra THEN 0 ELSE st.extraPayment,
              payments         |-> [st.payments EXCEPT ![k] = payment],
              paidDown         |-> [st.paidDown EXCEPT ![k] = balance] ]

RECURSIVE ForLoop(_, _)
\* for (let i = 0; i < debtCopies.length; i++)
ForLoop(st, k) ==
    IF k > Len(st.debtCopies) THEN st ELSE ForLoop(ProcessDebt(st, k), k + 1)

\* debtCopies.some(debt => debt.balance > 0.01)
SomeOwing(copies) == \E k \in DOMAIN copies : copies[k].balance > Epsilon

\* Mutant: the safety limit is off by one.
LoopConditionOffByOne(copies, m) == SomeOwing(copies) /\ m <= MaxMonths + 1

\* The condition of the while loop.
LoopCondition(copies, m) == SomeOwing(copies) /\ m <= MaxMonths

\* totalInterest += monthlyInterest
AddInterest(total, monthlyInterest) == total + monthlyInterest

\* One iteration of the while loop: a simulated month.
SimulateMonth ==
    /\ pc = "loop"
    /\ LoopCondition(debtCopies, month)
    /\ LET st == ForLoop([ debtCopies       |-> debtCopies,
                           debtOrder        |-> debtOrder,
                           monthlyInterest  |-> 0,
                           monthlyPrincipal |-> 0,
                           extraPayment     |-> availablePayment - totalMinimums,
                           payments         |-> [k \in DOMAIN debtCopies |-> 0],
                           paidDown         |-> [k \in DOMAIN debtCopies |->
                                                    debtCopies[k].balance] ], 1)
       IN  /\ debtCopies' = st.debtCopies
           /\ debtOrder' = st.debtOrder
           /\ payments' = st.payments
           /\ paidDown' = st.paidDown
           /\ callerDebts' = WriteThrough(callerDebts, st.debtCopies, copiesShared)
           /\ totalInterest' = AddInterest(totalInterest, st.monthlyInterest)
           /\ paymentSchedule' = Append(paymentSchedule,
                  [ month        |-> month,
                    principal    |-> st.monthlyPrincipal,
                    interest     |-> st.monthlyInterest,
                    balance      |-> SumOver(st.debtCopies, "balance"),
                    totalPayment |-> st.monthlyPrincipal + st.monthlyInterest ])
    /\ month' = month + 1
    /\ UNCHANGED << pc, debts, availablePayment, strategy, sortedDebts,
                    totalMinimums, copiesShared, result >>
    /\ UNCHANGED besidesStrategy

\* Mutant: the month counter is returned as it stands.
PayoffTimeMonthsNoDecrement(m) == m

\* payoffTimeMonths: month - 1
PayoffTimeMonths(m) == m - 1

\* The return statement, once the while test fails.
Return ==
    /\ pc = "loop"
    /\ ~LoopCondition(debtCopies, month)
    /\ result' = [ strategy         |-> strategy,
                   totalInterest    |-> totalInterest,
                   payoffTimeMonths |-> PayoffTimeMonths(month),
                   monthlyPayment   |-> availablePayment,
                   paymentSchedule  |-> paymentSchedule,
                   debtOrder        |-> debtOrder ]
    /\ pc' = "returned"
    /\ UNCHANGED << debts, availablePayment, strategy, sortedDebts, debtCopies,
                    paymentSchedule, debtOrder, month, totalInterest,
                    totalMinimums, payments, paidDown, callerDebts, copiesShared >>
    /\ UNCHANGED besidesStrategy

\* One pass through the while loop from the locals s; past the end of the
\* loop (its test fails) nothing changes any more.
MonthStep(s, available, minimums) ==
    IF ~LoopCondition(s.debtCopies, s.month) THEN s
    ELSE CHOOSE after \in
        { [ debtCopies      |-> st.debtCopies,
            debtOrder       |-> st.debtOrder,
            totalInterest   |-> AddInterest(s.totalInterest, st.monthlyInterest),
            paymentSchedule |-> Append(s.paymentSchedule,
                [ month        |-> s.month,
                  principal    |-> st.monthlyPrincipal,
                  interest     |-> st.monthlyInterest,
                  balance      |-> SumOver(st.debtCopies, "balance"),
                  totalPayment |-> st.monthlyPrincipal + st.monthlyInterest ]),
            month           |-> s.month + 1 ] :
          st \in { ForLoop([ debtCopies       |-> s.debtCopies,
                             debtOrder        |-> s.debtOrder,
                             monthlyInterest  |-> 0,
                             monthlyPrincipal |-> 0,
                             extraPayment     |-> available - minimums,
                             payments         |-> [k \in DOMAIN s.debtCopies |-> 0],
                             paidDown         |-> [k \in DOMAIN s.debtCopies |->
                                                      s.debtCopies[k].balance] ], 1) } } :
        TRUE

RECURSIVE Passes(_, _, _, _)
\* n passes through the while loop, split in halves to keep the evaluation
\* shallow; half is bound to the locals after the first half, and the second
\* half is skipped once the loop's test has failed.
Passes(s, n, available, minimums) ==
    IF n = 0 THEN s
    ELSE IF n = 1 THEN MonthStep(s, available, minimums)
    ELSE CHOOSE after \in
             { IF ~LoopCondition(half.debtCopies, half.month) THEN half
               ELSE Passes(half, n - (n \div 2), available, minimums) :
                   half \in { Passes(s, n \div 2, available, minimums) } } : TRUE

\* The while loop run to its end, for the callers that run a strategy in one
\* step.  The loop's own test ends it; twice the safety limit is more passes
\* than it can make.
WhileLoop(s, available, minimums) == Passes(s, 2 * MaxMonths, available, minimums)

\* What a thrown call yields in place of a DebtAnalysis.
Thrown == [strategy |-> "thrown"]

\* calculateDebtStrategy as a function of its arguments.
DebtStrategyValue(sorted, available, label) ==
    LET minimums == SumOver(sorted, "minimumPayment")
    IN  IF InsufficientPayment(minimums, available) THEN Thrown
        ELSE CHOOSE analysis \in
            { [ strategy         |-> label,
                totalInterest    |-> s.totalInterest,
                payoffTimeMonths |-> PayoffTimeMonths(s.month),
                monthlyPayment   |-> available,
                paymentSchedule  |-> s.paymentSchedule,
                debtOrder        |-> s.debtOrder ] :
              s \in { WhileLoop([ debtCopies      |-> sorted,
                                  debtOrder       |-> << >>,
                                  totalInterest   |-> 0,
                                  paymentSchedule |-> << >>,
                                  month           |-> 1 ], available, minimums) } } :
            TRUE

\* calculateSnowballStrategy, calculateAvalancheStrategy and
\* calculateHybridStrategy as functions of their arguments.
StrategyValue(ds, available, strat) ==
    DebtStrategyValue(SortDebts(ds, strat), available, strat)

Next ==
    \/ CalculateSnowballStrategy
    \/ CalculateAvalancheStrategy
    \/ CalculateHybridStrategy
    \/ SimulateMonth
    \/ Return

Spec == Init /\ [][Next]_vars

(* ------------------------------------------------------------------ *)
(* validateDebts and calculateDebtMetrics                               *)
(* ------------------------------------------------------------------ *)

\* Debts given to validateDebts and calculateDebtMetrics: a sound one, the
\* debt of the documented example (interest-only payment 20, minimum 15), the
\* same debt with the minimum exactly at and just above the interest-only
\* payment, a settled debt, one with a rate above 50 and one with no rate and
\* no minimum.
ValidationChoices ==
    { [id |-> "A", balance |-> Amount(500),  interestRate |-> 20, minimumPayment |-> Amount(50)],
      [id |-> "V", balance |-> Amount(1000), interestRate |-> 24, minimumPayment |-> Amount(15)],
      [id |-> "E", balance |-> Amount(1000), interestRate |-> 24, minimumPayment |-> Amount(20)],
      [id |-> "J", balance |-> Amount(1000), interestRate |-> 24, minimumPayment |-> Amount(20) + 1],
      [id |-> "Z", balance |-> 0,            interestRate |-> 12, minimumPayment |-> Amount(25)],
      [id |-> "R", balance |-> Amount(500),  interestRate |-> 60, minimumPayment |-> Amount(30)],
      [id |-> "F", balance |-> Amount(500),  interestRate |-> 0,  minimumPayment |-> 0] }

IncomeChoices == { 0, Amount(300), Amount(3000) }

\* Lists of at most n debts from ValidationChoices.
RECURSIVE ValidationLists(_)
ValidationLists(n) ==
    IF n = 0 THEN { << >> }
    ELSE LET shorter == ValidationLists(n - 1)
         IN  shorter \cup
             { Append(s, d) : s \in { t \in shorter : Len(t) = n - 1 },
                              d \in ValidationChoices }

\* The values a JavaScript division yields: a quotient, NaN or an infinity.
Finite(n, d) == [kind |-> "finite", num |-> n, den |-> d]

NaN == [kind |-> "NaN", num |-> 0, den |-> 0]

Infinity == [kind |-> "Infinity", num |-> 0, den |-> 0]

NegativeInfinity == [kind |-> "-Infinity", num |-> 0, den |-> 0]

\* Mutant: 0 / 0 yields 0.
DivideZeroByZeroIsZero(a, b) ==
    IF b # 0 \/ a = 0 THEN Finite(a, 1)
    ELSE IF a > 0 THEN Infinity ELSE NegativeInfinity

\* a / b for numbers a and b
Divide(a, b) ==
    IF b # 0 THEN Finite(a, b)
    ELSE IF a = 0 THEN NaN
    ELSE IF a > 0 THEN Infinity ELSE NegativeInfinity

\* x * k for a positive number k
Times(x, k) == IF x.kind = "finite" THEN Finite(x.num * k, x.den) ELSE x

Max(a, b) == IF a >= b THEN a ELSE b

\* debts.reduce((sum, debt) => sum + debt.interestRate * debt.balance, 0)
RECURSIVE SumRateTimesBalance(_)
SumRateTimesBalance(s) ==
    IF s = << >> THEN 0
    ELSE SumRateTimesBalance(SubSeq(s, 1, Len(s) - 1))
             + s[Len(s)].interestRate * s[Len(s)].balance

\* calculateDebtMetrics as a function of its arguments; monthlyIncome * 0.2
\* is a fifth of the income.
DebtMetrics(ds, income) ==
    LET totalDebt == SumOver(ds, "balance")
        totalMinimumPayments == SumOver(ds, "minimumPayment")
    IN  [ totalDebt            |-> totalDebt,
          totalMinimumPayments |-> totalMinimumPayments,
          debtToIncomeRatio    |-> Times(Divide(totalMinimumPayments, income), 100),
          averageInterestRate  |-> Divide(SumRateTimesBalance(ds), totalDebt),
          recommendedPayment   |-> Max(totalMinimumPayments, income \div 5) ]

\* Mutant: the debts are numbered from 0.
MessageFromZero(number, text) == [debt |-> number - 1, problem |-> text]

\* The message `Debt ${index + 1}: ${text}`, number being index + 1.
Message(number, text) == [debt |-> number, problem |-> text]

BalanceMessage == "Balance must be greater than 0"

RateMessage == "Interest rate must be between 0% and 50%"

MinimumMessage == "Minimum payment must be greater than 0"

TooLowMessage == "Minimum payment is too low to cover interest"

\* Mutant: a minimum equal to the interest-only payment is accepted.
TooLowStrictly(debt) ==
    debt.minimumPayment * (100 * 12) < debt.balance * debt.interestRate

\* debt.minimumPayment <= debt.balance * calculateMonthlyRate(debt.interestRate),
\* the rate being interestRate / 100 / 12
TooLowToCoverInterest(debt) ==
    debt.minimumPayment * (100 * 12) <= debt.balance * debt.interestRate

\* The messages one pass of the forEach callback pushes for a debt.
DebtErrors(debt, number) ==
    (IF debt.balance <= 0 THEN << Message(number, BalanceMessage) >> ELSE << >>)
    \o (IF debt.interestRate < 0 \/ debt.interestRate > 50
        THEN << Message(number, RateMessage) >> ELSE << >>)
    \o (IF debt.minimumPayment <= 0 THEN << Message(number, MinimumMessage) >> ELSE << >>)
    \o (IF TooLowToCoverInterest(debt) THEN << Message(number, TooLowMessage) >> ELSE << >>)

\* validateDebts as a function of its argument.
RECURSIVE ValidationErrors(_)
ValidationErrors(ds) ==
    IF ds = << >> THEN << >>
    ELSE ValidationErrors(SubSeq(ds, 1, Len(ds) - 1))
             \o DebtErrors(ds[Len(ds)], Len(ds))

\* No strategy call is under way.
StrategyAtRest ==
    /\ pc = "idle"
    /\ strategy = "none"
    /\ sortedDebts = << >>
    /\ debtCopies = << >>
    /\ paymentSchedule = << >>
    /\ debtOrder = << >>
    /\ month = 1
    /\ totalInterest = 0
    /\ totalMinimums = 0
    /\ payments = << >>
    /\ paidDown = << >>
    /\ copiesShared = FALSE
    /\ result = NoResult

strategyVars == << pc, debts, availablePayment, strategy, sortedDebts, debtCopies,
                   paymentSchedule, debtOrder, month, totalInterest,
                   totalMinimums, payments, paidDown, callerDebts,
                   copiesShared, result >>

\* The debts of the amortization examples: A and C as above, and D, whose
\* minimum payment leaves one hundredth of its balance.
AmortizationChoices ==
    { d \in DebtChoices : d.id \in { "A", "C" } }
    \cup { [id |-> "D", balance |-> Amount(150) + Epsilon, interestRate |-> 0,
            minimumPayment |-> Amount(150)] }

RECURSIVE AmortizationLists(_)
AmortizationLists(n) ==
    IF n = 0 THEN { << >> }
    ELSE LET shorter == AmortizationLists(n - 1)
         IN  shorter \cup { Append(s, d) : s \in shorter, d \in AmortizationChoices }

AmortizationInit ==
    /\ pc = "idle"
    /\ debts \in { s \in AmortizationLists(MaxDebts) : DistinctIds(s) }
    /\ availablePayment \in PaymentChoices
    /\ StrategyAtRest
    /\ callerDebts = debts
    /\ LibAtRest
    /\ ServiceAtRest
    /\ AppAtRest

\* The strategies on the debts of the amortization examples.
AmortizationSpec == AmortizationInit /\ [][Next]_vars

\* Everything a call to validateDebts or calculateDebtMetrics leaves alone.
besidesLib == << strategyVars, serviceVars, appVars, conversationVars >>

LibInit ==
    /\ debts \in ValidationLists(MaxDebts)
    /\ callerDebts = debts
    /\ availablePayment = 0
    /\ StrategyAtRest
    /\ monthlyIncome \in IncomeChoices
    /\ errors = << >>
    /\ metrics = NoMetrics
    /\ called = "none"
    /\ ServiceAtRest
    /\ AppAtRest

ValidateDebts ==
    /\ errors' = ValidationErrors(debts)
    /\ called' = "validateDebts"
    /\ UNCHANGED << monthlyIncome, metrics, besidesLib >>

CalculateDebtMetrics ==
    /\ metrics' = DebtMetrics(debts, monthlyIncome)
    /\ called' = "calculateDebtMetrics"
    /\ UNCHANGED << monthlyIncome, errors, besidesLib >>

LibNext ==
    \/ ValidateDebts
    \/ CalculateDebtMetrics

LibSpec == LibInit /\ [][LibNext]_vars

(* ------------------------------------------------------------------ *)
(* The sums of minimum payments in double precision                    *)
(* ------------------------------------------------------------------ *)

\* A number of the code is an IEEE 754 double.  Here a double that is 0 or
\* between 2^-7 and 2^WholeBits is written in binary, most significant
\* digit first, with WholeBits digits before the point and FractionBits
\* after it.
WholeBits == 10

FractionBits == 60

\* The significand of a double has 53 binary digits.
SignificandBits == 53

\* n places of 0
Zeros(n) == SubSeq([i \in 1..n |-> 0], 1, n)

Zero == Zeros(WholeBits + FractionBits)

\* The binary digits of a whole number n, in the given number of places.
RECURSIVE WholeDigits(_, _)
WholeDigits(n, places) ==
    IF places = 0 THEN << >>
    ELSE Append(WholeDigits(n \div 2, places - 1), n % 2)

\* 2^k modulo the denominator, by repeated squaring.
RECURSIVE PowerOfTwoMod(_, _)
PowerOfTwoMod(k, denominator) ==
    IF k = 0 THEN 1 % denominator
    ELSE CHOOSE power \in
             { (root * root * (IF k % 2 = 1 THEN 2 ELSE 1)) % denominator :
                 root \in { PowerOfTwoMod(k \div 2, denominator) } } : TRUE

\* What is left of numerator / denominator (below 1) after its first k
\* binary places, as a numerator.
Remainder(numerator, denominator, k) ==
    (numerator * PowerOfTwoMod(k, denominator)) % denominator

\* The first binary places of numerator / denominator (below 1), and after
\* them a 1 when places with a 1 are still to come.
FractionDigits(numerator, denominator, places) ==
    SubSeq([k \in 1..(places + 1) |->
               IF k <= places
               THEN (2 * Remainder(numerator, denominator, k - 1)) \div denominator
               ELSE IF Remainder(numerator, denominator, places) = 0 THEN 0 ELSE 1],
           1, places + 1)

\* The carry into place i of the sum of x and y: a place after i where both
\* have a 1, and between the two only places where one of them has.
CarryInto(x, y, i) ==
    IF \E j \in (i + 1)..Len(x) :
           /\ x[j] = 1 /\ y[j] = 1
           /\ \A k \in (i + 1)..(j - 1) : x[k] # y[k]
    THEN 1 ELSE 0

\* The sum of x and y, every digit of it.
AddExact(x, y) ==
    CHOOSE sum \in
        { SubSeq([i \in 1..Len(a) |-> (a[i] + b[i] + CarryInto(a, b, i)) % 2],
                 1, Len(a)) : a \in { x }, b \in { y } } : TRUE

\* The place of the first 1 of x.
First(x) ==
    CHOOSE p \in 1..Len(x) : x[p] = 1 /\ \A j \in 1..(p - 1) : x[j] = 0

\* The double nearest to x, ties to the even significand: the result of
\* every arithmetic operation and of reading a decimal numeral.
RoundToDouble(x) ==
    IF \A i \in 1..Len(x) : x[i] = 0 THEN x
    ELSE CHOOSE double \in
             { IF last >= Len(x) THEN x
               ELSE IF x[last + 1] = 1
                       /\ (x[last] = 1 \/ \E j \in (last + 2)..Len(x) : x[j] = 1)
                    THEN AddExact(SubSeq(x, 1, last) \o Zeros(Len(x) - last),
                                  Zeros(last - 1) \o << 1 >> \o Zeros(Len(x) - last))
                    ELSE SubSeq(x, 1, last) \o Zeros(Len(x) - last) :
                 last \in { First(x) + SignificandBits - 1 } } : TRUE

\* The double a decimal numeral with two places stands for, the numeral
\* given in hundredths.
FromDecimal(hundredths) ==
    CHOOSE double \in
        { SubSeq(rounded, 1, WholeBits + FractionBits) :
            rounded \in { RoundToDouble(digits) :
                digits \in { WholeDigits(hundredths \div 100, WholeBits)
                             \o FractionDigits(hundredths % 100, 100,
                                               FractionBits) } } } : TRUE

\* x + y
Plus(x, y) ==
    CHOOSE double \in
        { RoundToDouble(sum) : sum \in { AddExact(a, b) : a \in { x }, b \in { y } } } :
        TRUE

\* x > y
Greater(x, y) ==
    \E i \in 1..Len(x) : x[i] > y[i] /\ \A j \in 1..(i - 1) : x[j] = y[j]

\* Math.max(x, y)
MathMax(x, y) ==
    CHOOSE larger \in { IF Greater(b, a) THEN b ELSE a : a \in { x }, b \in { y } } :
        TRUE

\* n times x, every digit of it, for a whole number n.
RECURSIVE TimesExact(_, _)
TimesExact(x, n) ==
    IF n = 0 THEN Zero
    ELSE CHOOSE product \in
             { AddExact(Tail(half) \o << 0 >>, IF n % 2 = 1 THEN x ELSE Zero) :
                 half \in { TimesExact(x, n \div 2) } } : TRUE

\* monthlyIncome * 0.2, for an income of whole units given in hundredths.
TimesOneFifth(income) ==
    CHOOSE double \in
        { RoundToDouble(product) :
            product \in { TimesExact(fifth, income \div 100) :
                             fifth \in { FromDecimal(20) } } } : TRUE

\* s.reduce((sum, debt) => sum + debt[f], 0)
RECURSIVE ReduceSum(_, _)
ReduceSum(s, f) ==
    IF s = << >> THEN Zero
    ELSE CHOOSE double \in
             { Plus(sum, FromDecimal(s[Len(s)][f])) :
                 sum \in { ReduceSum(SubSeq(s, 1, Len(s) - 1), f) } } : TRUE

\* The debts of the example: their minimum payments add up to one sum in
\* one order and to the next double in another.
DoubleChoices ==
    { [id |-> "P", balance |-> Amount(3000), interestRate |-> 8,
       minimumPayment |-> Amount(25)],
      [id |-> "Q", balance |-> Amount(1500), interestRate |-> 12,
       minimumPayment |-> Amount(20) - Epsilon],
      [id |-> "R", balance |-> Amount(1000), interestRate |-> 15,
       minimumPayment |-> Amount(50) - Epsilon] }

\* The double model takes lists of up to this many debts.
MaxSummands == 3

RECURSIVE SummandLists(_)
SummandLists(n) ==
    IF n = 0 THEN { << >> }
    ELSE LET shorter == SummandLists(n - 1)
         IN  shorter \cup { Append(s, d) : s \in shorter, d \in DoubleChoices }

\* calculateDebtMetrics with the sum of the minimum payments and the
\* recommendedPayment as the doubles the code computes; the sum of the
\* balances (whole numbers here, which doubles add exactly) and the ratios
\* as DebtMetrics gives them.
DebtMetricsInDoubles(ds, income) ==
    CHOOSE value \in
        { [DebtMetrics(ds, income) EXCEPT
              !.totalMinimumPayments = totalMinimumPayments,
              !.recommendedPayment =
                  MathMax(totalMinimumPayments, TimesOneFifth(income))] :
            totalMinimumPayments \in { ReduceSum(ds, "minimumPayment") } } : TRUE

CalculateDebtMetricsInDoubles ==
    /\ called = "none"
    /\ metrics' = DebtMetricsInDoubles(debts, monthlyIncome)
    /\ called' = "calculateDebtMetrics"
    /\ UNCHANGED << monthlyIncome, errors, besidesLib >>

\* A strategy called with the recommendedPayment of the metrics, up to the
\* while loop: totalMinimums and the test on it in doubles.
EnterWithRecommendedPayment(arrays, label) ==
    /\ pc = "idle"
    /\ called = "calculateDebtMetrics"
    /\ \E minimums \in { ReduceSum(arrays.sorted, "minimumPayment") } :
           /\ totalMinimums' = minimums
           /\ pc' = IF Greater(minimums, metrics.recommendedPayment)
                    THEN "thrown" ELSE "loop"
    /\ availablePayment' = metrics.recommendedPayment
    /\ strategy' = label
    /\ callerDebts' = arrays.caller
    /\ copiesShared' = DebtCopiesShared(arrays.shared)
    /\ sortedDebts' = arrays.sorted
    /\ debtCopies' = arrays.sorted
    /\ paymentSchedule' = << >>
    /\ debtOrder' = << >>
    /\ month' = 1
    /\ totalInterest' = 0
    /\ payments' = [k \in DOMAIN arrays.sorted |-> 0]
    /\ paidDown' = [k \in DOMAIN arrays.sorted |-> arrays.sorted[k].balance]
    /\ UNCHANGED << debts, result, besidesStrategy >>

SnowballWithRecommendedPayment ==
    EnterWithRecommendedPayment(SpreadAndSort(callerDebts, "snowball"), "snowball")

AvalancheWithRecommendedPayment ==
    EnterWithRecommendedPayment(SpreadAndSort(callerDebts, "avalanche"), "avalanche")

HybridWithRecommendedPayment ==
    EnterWithRecommendedPayment(MapAndSort(callerDebts, "hybrid"), "hybrid")

DoubleInit ==
    /\ debts \in { s \in SummandLists(MaxSummands) : DistinctIds(s) }
    /\ callerDebts = debts
    /\ availablePayment = Zero
    /\ StrategyAtRest
    /\ monthlyIncome \in { 0, Amount(300) }
    /\ errors = << >>
    /\ metrics = NoMetrics
    /\ called = "none"
    /\ ServiceAtRest
    /\ AppAtRest

DoubleNext ==
    \/ CalculateDebtMetricsInDoubles
    \/ SnowballWithRecommendedPayment
    \/ AvalancheWithRecommendedPayment
    \/ HybridWithRecommendedPayment

\* calculateDebtMetrics, then a strategy with the recommendedPayment, up to
\* the strategy's test of the payment.
DoubleSpec == DoubleInit /\ [][DoubleNext]_vars


(* ------------------------------------------------------------------ *)
(* GeminiService                                                        *)
(* ------------------------------------------------------------------ *)

\* Everything the service leaves alone.
besidesService == << strategyVars, libVars, appVars, conversationVars >>

MaxRequestsPerMinute == 10

RequestInterval == 60000

\* The clock is followed up to this reading.
MaxClock == 180003

\* At most this many calls are suspended at the model at once.
MaxAwaiting == 2

\* The steps by which the clock advances between calls.
Delays == { 30000, 60001 }

Methods == { "getDebtRecommendations", "getBudgetRecommendations",
             "askFollowUpQuestion" }

\* The ApiResponse values; a field left out in the code reads "" here.
Success(text) == [success |-> TRUE, data |-> text, error |-> ""]

Failure(message) == [success |-> FALSE, data |-> "", error |-> message]

NotConfiguredMessage(method) ==
    IF method = "askFollowUpQuestion"
    THEN "Gemini AI service is not configured."
    ELSE "Gemini AI service is not configured. Please add your API key to the .env file."

\* Mutant: a rejected request is reported without a message.
RateLimitUnreported(method) == ""

RateLimitMessage(method) ==
    IF method = "askFollowUpQuestion"
    THEN "Rate limit exceeded. Please wait before asking another question."
    ELSE "Rate limit exceeded. Please wait a moment before requesting more recommendations."

FailedMessage(method) ==
    CASE method = "getDebtRecommendations" ->
             "Failed to generate recommendations. Please check your API key and try again."
      [] method = "getBudgetRecommendations" ->
             "Failed to generate budget recommendations."
      [] method = "askFollowUpQuestion" ->
             "Failed to process your question."

\* How a method call ended: resolved with a value, or rejected (it threw).
Resolved(call, cause, value) ==
    [ method |-> call.method, cause |-> cause, outcome |-> "resolved",
      value |-> value, modelCalls |-> call.modelCalls ]

Rejected(call, cause) ==
    [ method |-> call.method, cause |-> cause, outcome |-> "rejected",
      value |-> Failure(""), modelCalls |-> call.modelCalls ]

\* Mutant: the limit is passed by one.
RateLimitedAbove(count) == count > MaxRequestsPerMinute

\* if (this.requestCount >= this.maxRequestsPerMinute) return false
RateLimited(count) == count >= MaxRequestsPerMinute

\* Mutant: a rejected request is recorded as the last request.
CheckRateLimitStamping(count, last, currentTime) ==
    LET current == IF currentTime - last > RequestInterval THEN 0 ELSE count
    IN  IF RateLimited(current)
        THEN [ allowed |-> FALSE, requestCount |-> current,
               lastRequestTime |-> currentTime ]
        ELSE [ allowed |-> TRUE, requestCount |-> current + 1,
               lastRequestTime |-> currentTime ]

\* checkRateLimit: whether the request is allowed, and the counter and the
\* time it leaves behind.
CheckRateLimit(count, last, currentTime) ==
    LET current == IF currentTime - last > RequestInterval THEN 0 ELSE count
    IN  IF RateLimited(current)
        THEN [ allowed |-> FALSE, requestCount |-> current,
               lastRequestTime |-> last ]
        ELSE [ allowed |-> TRUE, requestCount |-> current + 1,
               lastRequestTime |-> currentTime ]

\* The admissions of the last requestInterval, as the clock reads t.
Recent(times, t) == SelectSeq(times, LAMBDA at : at >= t - RequestInterval)

\* A method called at the present clock reading, up to its first await or
\* its early return.
MethodCall(method) ==
    /\ Len(awaiting) < MaxAwaiting
    /\ IF ~configured
       THEN /\ settled' = Resolved([method |-> method, modelCalls |-> 0],
                                   "not configured",
                                   Failure(NotConfiguredMessage(method)))
            /\ UNCHANGED << requestCount, lastRequestTime, admitted, awaiting >>
       ELSE LET limit == CheckRateLimit(requestCount, lastRequestTime, now)
            IN  /\ requestCount' = limit.requestCount
                /\ lastRequestTime' = limit.lastRequestTime
                /\ IF ~limit.allowed
                   THEN /\ settled' = Resolved([method |-> method, modelCalls |-> 0],
                                               "rate limited",
                                               Failure(RateLimitMessage(method)))
                        /\ UNCHANGED << admitted, awaiting >>
                   ELSE /\ admitted' = Append(admitted, now)
                        /\ awaiting' = Append(awaiting,
                               [method |-> method, modelCalls |-> 1])
                        /\ UNCHANGED settled
    /\ UNCHANGED << now, configured, besidesService >>

GetDebtRecommendations == MethodCall("getDebtRecommendations")

GetBudgetRecommendations == MethodCall("getBudgetRecommendations")

AskFollowUpQuestion == MethodCall("askFollowUpQuestion")

Without(s, i) == SubSeq(s, 1, i - 1) \o SubSeq(s, i + 1, Len(s))

\* Mutant: the catch block throws the error on.
OnModelExceptionRethrow(call) == Rejected(call, "model exception")

\* The catch block of a method.
OnModelException(call) ==
    Resolved(call, "model exception", Failure(FailedMessage(call.method)))

\* The model answers a suspended call.
ModelAnswers ==
    \E i \in DOMAIN awaiting :
        /\ settled' = Resolved(awaiting[i], "answered", Success("text"))
        /\ awaiting' = Without(awaiting, i)
        /\ UNCHANGED << now, configured, requestCount, lastRequestTime,
                        admitted, besidesService >>

\* The model call of a suspended call throws.
ModelThrows ==
    \E i \in DOMAIN awaiting :
        /\ settled' = OnModelException(awaiting[i])
        /\ awaiting' = Without(awaiting, i)
        /\ UNCHANGED << now, configured, requestCount, lastRequestTime,
                        admitted, besidesService >>

\* Time passes.
Tick ==
    \E d \in Delays :
        /\ now + d <= MaxClock
        /\ now' = now + d
        /\ admitted' = Recent(admitted, now')
        /\ UNCHANGED << configured, requestCount, lastRequestTime, awaiting,
                        settled, besidesService >>

ServiceInit ==
    /\ debts = << >>
    /\ callerDebts = debts
    /\ availablePayment = 0
    /\ StrategyAtRest
    /\ LibAtRest
    /\ now = PageLoadTime
    /\ configured \in BOOLEAN
    /\ requestCount = 0
    /\ lastRequestTime = 0
    /\ admitted = << >>
    /\ awaiting = << >>
    /\ settled = NoCall
    /\ AppAtRest

ServiceNext ==
    \/ GetDebtRecommendations
    \/ GetBudgetRecommendations
    \/ AskFollowUpQuestion
    \/ ModelAnswers
    \/ ModelThrows
    \/ Tick

ServiceSpec == ServiceInit /\ [][ServiceNext]_vars

(* ------------------------------------------------------------------ *)
(* App, DebtForm and DebtAnalysis                                       *)
(* ------------------------------------------------------------------ *)

\* Everything the components leave alone, but for the conversation.
besidesComponents == << strategyVars, libVars, serviceVars >>

\* Everything a handler that keeps no conversation leaves alone.
besidesApp == << besidesComponents, conversationVars >>

\* The form holds at most this many debts.
MaxFormDebts == 1

\* At most this many handlers of DebtAnalysis are suspended at once.
MaxPending == 2

\* The ids addDebt draws from (the time and a random suffix in the code).
FormIds == { "d1", "d2", "d3" }

\* What the user types into the fields.
FormIncomeChoices == { 0, Amount(300) }

FormExpenseChoices == { 0, Amount(260), Amount(300) }

NameChoices == { "", "Card" }

BalanceChoices == { 0, Amount(500) }

\* A rate validateDebts accepts and one above the 50 it allows.
RateChoices == { 0, 60 }

MinimumChoices == { 0, Amount(50) }

QuestionChoices == { "", "How?" }

\* Mutant: no step reports an error.
NoStepErrors(step, p) == {}

\* validateStep: the keys of newErrors for a step.  The expenses are held as
\* one category.
StepErrors(step, p) ==
    CASE step = 1 ->
             IF p.monthlyIncome <= 0 THEN { "monthlyIncome" } ELSE {}
      [] step = 2 ->
             (IF p.expenses >= p.monthlyIncome THEN { "expenses" } ELSE {})
             \cup (IF p.expenses < 0 THEN { "expenses.housing" } ELSE {})
      [] step = 3 ->
             IF Len(p.debts) = 0 THEN { "debts" }
             ELSE (IF Len(ValidationErrors(p.debts)) > 0 THEN { "debts" } ELSE {})
                  \cup { "debt-" \o p.debts[k].id \o "-name" :
                             k \in { j \in DOMAIN p.debts : p.debts[j].name = "" } }
      [] OTHER -> {}

\* profile.monthlyIncome - totalExpenses
AvailableForDebt(p) == p.monthlyIncome - p.expenses

\* What the body of the try in the useEffect leaves in analyses: the three
\* results, or nothing when a strategy throws.
ComputedAnalyses(p) ==
    CHOOSE value \in
        { IF Thrown \in { snowball, avalanche, hybrid } THEN NoAnalyses
          ELSE [ snowball |-> snowball, avalanche |-> avalanche, hybrid |-> hybrid ] :
            snowball \in { StrategyValue(p.debts, AvailableForDebt(p), "snowball") },
            avalanche \in { StrategyValue(p.debts, AvailableForDebt(p), "avalanche") },
            hybrid \in { StrategyValue(p.debts, AvailableForDebt(p), "hybrid") } } :
        TRUE

NotAvailableMessage ==
    "AI recommendations are not available. Please configure your Gemini API key in the .env file to get personalized advice."

\* `${response.error}`
ErrorOf(response) == IF response.error = "" THEN "undefined" ELSE response.error

UnableMessage(response) == "Unable to load AI recommendations: " \o ErrorOf(response)

ErrorMessage(response) == "Error: " \o ErrorOf(response)

\* useConversationHistory keeps this many entries.
HistoryLimit == 20

\* new Date() when the entry with this serial number is made.
DateAt(serial) == [type |-> "Date", time |-> serial]

\* What JSON.stringify writes for a timestamp and JSON.parse gives back: a
\* Date becomes its ISO string, a string stays.
ToJSON(timestamp) == [type |-> "string", time |-> timestamp.time]

NewEntry(serial, userMessage, aiResponse) ==
    [ timestamp   |-> DateAt(serial),
      userMessage |-> userMessage,
      aiResponse  |-> aiResponse ]

\* Mutant: the first n elements are kept.
SliceFirst(s, n) ==
    IF Len(s) <= n THEN s ELSE SubSeq(s, 1, n)

\* Array.prototype.slice(-n)
SliceLast(s, n) ==
    IF Len(s) <= n THEN s ELSE SubSeq(s, Len(s) - n + 1, Len(s))

\* addConversation: [...history, newEntry].slice(-20), with the history of
\* the render the function was made in.
UpdatedHistory(closureHistory, newEntry) ==
    SliceLast(Append(closureHistory, newEntry), HistoryLimit)

\* JSON.parse(JSON.stringify(value)) of a history.
Persisted(value) ==
    IF value = << >> THEN << >>
    ELSE [ i \in DOMAIN value |-> [value[i] EXCEPT !.timestamp = ToJSON(@)] ]

\* What a configured service resolves a call of a method to.
Responses(method) ==
    { Success("text"), Success(""), Failure(RateLimitMessage(method)),
      Failure(FailedMessage(method)) }

\* The state of the mounted DebtAnalysis that its handlers set.
ComponentState ==
    [ analyses             |-> analyses,
      aiRecommendations    |-> aiRecommendations,
      isLoadingAI          |-> isLoadingAI,
      followUpQuestion     |-> followUpQuestion,
      conversationResponse |-> conversationResponse ]

\* Mutant: a failed response also clears the strategy results.
AfterRecommendationsClearing(state, response) ==
    IF response.success /\ response.data # ""
    THEN [state EXCEPT !.aiRecommendations = response.data, !.isLoadingAI = FALSE]
    ELSE [state EXCEPT !.aiRecommendations = UnableMessage(response),
                       !.isLoadingAI = FALSE,
                       !.analyses = NoAnalyses]

\* loadAIRecommendations after its await.
AfterRecommendations(state, response) ==
    IF response.success /\ response.data # ""
    THEN [state EXCEPT !.aiRecommendations = response.data, !.isLoadingAI = FALSE]
    ELSE [state EXCEPT !.aiRecommendations = UnableMessage(response),
                       !.isLoadingAI = FALSE]

\* handleFollowUpQuestion after its await.
AfterFollowUp(state, response) ==
    IF response.success /\ response.data # ""
    THEN [state EXCEPT !.conversationResponse = response.data,
                       !.followUpQuestion = "",
                       !.isLoadingAI = FALSE]
    ELSE [state EXCEPT !.conversationResponse = ErrorMessage(response),
                       !.isLoadingAI = FALSE]

\* The component takes the state its handler leaves.
SetComponentState(state) ==
    /\ analyses' = state.analyses
    /\ aiRecommendations' = state.aiRecommendations
    /\ isLoadingAI' = state.isLoadingAI
    /\ followUpQuestion' = state.followUpQuestion
    /\ conversationResponse' = state.conversationResponse

\* DebtForm is mounted with initialData = financialProfile || undefined.
MountForm(stored) ==
    /\ currentStep' = 1
    /\ profile' = IF stored = NoProfile THEN BlankProfile ELSE stored
    /\ formErrors' = {}

UnmountForm ==
    /\ currentStep' = 1
    /\ profile' = BlankProfile
    /\ formErrors' = {}

\* DebtAnalysis is mounted with a profile: its initial state, then the
\* useEffect with loadAIRecommendations up to its return or its await.
MountAnalysis(p) ==
    \E computed \in { ComputedAnalyses(p) } :
        \E loading \in { computed # NoAnalyses /\ configured } :
            /\ analyses' = computed
            /\ history' = storedHistory
            /\ simulated' = << p.debts >>
            /\ aiRecommendations' =
                   IF computed # NoAnalyses /\ ~configured
                   THEN NotAvailableMessage ELSE ""
            /\ isLoadingAI' = loading
            /\ pending' =
                   IF loading
                   THEN << [kind |-> "recommendations",
                            analysis |-> computed.avalanche, question |-> ""] >>
                   ELSE << >>
            /\ followUpQuestion' = ""
            /\ conversationResponse' = ""
            /\ handled' = NothingHandled

\* DebtAnalysis is unmounted: its state is gone and what its suspended
\* handlers set no longer shows.
UnmountAnalysis ==
    /\ analyses' = NoAnalyses
    /\ history' = << >>
    /\ aiRecommendations' = ""
    /\ isLoadingAI' = FALSE
    /\ followUpQuestion' = ""
    /\ conversationResponse' = ""
    /\ pending' = << >>
    /\ simulated' = << >>
    /\ handled' = NothingHandled

\* "Start Your Free Analysis"
HandleStartAnalysis ==
    /\ currentView = "landing"
    /\ currentView' = "form"
    /\ MountForm(financialProfile)
    /\ UNCHANGED << financialProfile, analysisVars, besidesApp >>

\* "View Previous Analysis", rendered when financialProfile is set.
ViewPreviousAnalysis ==
    /\ currentView = "landing"
    /\ financialProfile # NoProfile
    /\ currentView' = "analysis"
    /\ MountAnalysis(financialProfile)
    /\ UNCHANGED << financialProfile, formVars, besidesApp >>

\* updateProfile('monthlyIncome', value), the field of step 1
UpdateIncome ==
    /\ currentView = "form"
    /\ currentStep = 1
    /\ \E value \in FormIncomeChoices :
           profile' = [profile EXCEPT !.monthlyIncome = value]
    /\ UNCHANGED << currentView, financialProfile, currentStep, formErrors,
                    analysisVars, besidesApp >>

\* updateProfile('expenses.<category>', value), the fields of step 2
UpdateExpenses ==
    /\ currentView = "form"
    /\ currentStep = 2
    /\ \E value \in FormExpenseChoices :
           profile' = [profile EXCEPT !.expenses = value]
    /\ UNCHANGED << currentView, financialProfile, currentStep, formErrors,
                    analysisVars, besidesApp >>

AddDebt ==
    /\ currentView = "form"
    /\ currentStep = 3
    /\ Len(profile.debts) < MaxFormDebts
    /\ LET id == CHOOSE fresh \in FormIds :
                     \A k \in DOMAIN profile.debts : profile.debts[k].id # fresh
       IN  profile' = [profile EXCEPT !.debts =
               Append(@, [ id |-> id, name |-> "", balance |-> 0,
                           interestRate |-> 0, minimumPayment |-> 0 ])]
    /\ UNCHANGED << currentView, financialProfile, currentStep, formErrors,
                    analysisVars, besidesApp >>

RemoveDebt ==
    /\ currentView = "form"
    /\ currentStep = 3
    /\ \E k \in DOMAIN profile.debts :
           profile' = [profile EXCEPT !.debts =
               SelectSeq(@, LAMBDA debt : debt.id # profile.debts[k].id)]
    /\ UNCHANGED << currentView, financialProfile, currentStep, formErrors,
                    analysisVars, besidesApp >>

\* updateDebt(id, field, value) for the fields of a debt in step 3
UpdateDebt ==
    /\ currentView = "form"
    /\ currentStep = 3
    /\ \E k \in DOMAIN profile.debts :
           \/ \E value \in NameChoices :
                  profile' = [profile EXCEPT !.debts[k].name = value]
           \/ \E value \in BalanceChoices :
                  profile' = [profile EXCEPT !.debts[k].balance = value]
           \/ \E value \in RateChoices :
                  profile' = [profile EXCEPT !.debts[k].interestRate = value]
           \/ \E value \in MinimumChoices :
                  profile' = [profile EXCEPT !.debts[k].minimumPayment = value]
    /\ UNCHANGED << currentView, financialProfile, currentStep, formErrors,
                    analysisVars, besidesApp >>

\* "Next", rendered while currentStep < 4
NextStep ==
    /\ currentView = "form"
    /\ currentStep < 4
    /\ formErrors' = StepErrors(currentStep, profile)
    /\ currentStep' = IF formErrors' = {} THEN Min(currentStep + 1, 4) ELSE currentStep
    /\ UNCHANGED << currentView, financialProfile, profile, analysisVars,
                    besidesApp >>

\* "Previous", disabled at step 1
PrevStep ==
    /\ currentView = "form"
    /\ currentStep > 1
    /\ currentStep' = currentStep - 1
    /\ UNCHANGED << currentView, financialProfile, profile, formErrors,
                    analysisVars, besidesApp >>

\* handleSubmit, the button of step 4, with handleProfileComplete as
\* onSubmit: the profile is stored, DebtForm gives way to DebtAnalysis.
HandleSubmit ==
    /\ currentView = "form"
    /\ currentStep = 4
    /\ LET newErrors == StepErrors(3, profile)
       IN  IF newErrors = {}
           THEN /\ financialProfile' = profile
                /\ currentView' = "analysis"
                /\ UnmountForm
                /\ MountAnalysis(profile)
           ELSE /\ formErrors' = newErrors
                /\ UNCHANGED << currentView, financialProfile, currentStep,
                                profile, analysisVars >>
    /\ UNCHANGED besidesApp

\* The service resolves the call loadAIRecommendations awaits.
RecommendationsArrive ==
    /\ currentView = "analysis"
    /\ \E i \in DOMAIN pending :
           /\ pending[i].kind = "recommendations"
           /\ \E response \in Responses("getDebtRecommendations") :
                  /\ SetComponentState(AfterRecommendations(ComponentState, response))
                  /\ handled' = [kind |-> "recommendations", response |-> response]
           /\ pending' = Without(pending, i)
    /\ UNCHANGED << currentView, financialProfile, formVars, history, simulated,
                    besidesApp >>

\* The follow-up input, rendered when the service is configured.
SetFollowUpQuestion ==
    /\ currentView = "analysis"
    /\ configured
    /\ \E question \in QuestionChoices : followUpQuestion' = question
    /\ UNCHANGED << currentView, financialProfile, formVars, analyses, history,
                    aiRecommendations, isLoadingAI, conversationResponse,
                    pending, simulated, handled, besidesApp >>

\* The follow-up handlers among the suspended ones.
FollowUps(handlers) ==
    SelectSeq(handlers, LAMBDA handler : handler.kind = "followUp")

\* The user asks at most this many follow-up questions.
MaxFollowUps == 3

\* handleFollowUpQuestion up to its return or its await: the Enter key calls
\* it whether or not a request is under way.  The handler keeps the question
\* and the conversation history of the render it was made in.
HandleFollowUpQuestion ==
    /\ currentView = "analysis"
    /\ configured
    /\ Len(pending) < MaxPending
    /\ entriesMade + Len(FollowUps(pending)) + Len(orphaned) < MaxFollowUps
    /\ IF followUpQuestion = ""
       THEN UNCHANGED << isLoadingAI, pending >>
       ELSE /\ isLoadingAI' = TRUE
            /\ pending' = Append(pending,
                   [kind |-> "followUp", analysis |-> NoResult,
                    question |-> followUpQuestion, history |-> history])
    /\ UNCHANGED << currentView, financialProfile, formVars, analyses, history,
                    aiRecommendations, followUpQuestion, conversationResponse,
                    simulated, handled, besidesApp >>

\* The response is one handleFollowUpQuestion calls addConversation with.
Answered(response) == response.success /\ response.data # ""

\* The service resolves the call handleFollowUpQuestion awaits; setHistory
\* sets the state of the hook and writes localStorage.
FollowUpArrives ==
    /\ currentView = "analysis"
    /\ \E i \in DOMAIN pending :
           /\ pending[i].kind = "followUp"
           /\ \E response \in Responses("askFollowUpQuestion") :
                  /\ SetComponentState(AfterFollowUp(ComponentState, response))
                  /\ handled' = [kind |-> "followUp", response |-> response]
                  /\ IF Answered(response)
                     THEN /\ history' = UpdatedHistory(pending[i].history,
                                            NewEntry(entriesMade + 1,
                                                     pending[i].question,
                                                     response.data))
                          /\ storedHistory' = Persisted(history')
                          /\ entriesMade' = entriesMade + 1
                     ELSE UNCHANGED << history, storedHistory, entriesMade >>
           /\ pending' = Without(pending, i)
    /\ UNCHANGED << currentView, financialProfile, formVars, simulated,
                    orphaned, besidesComponents >>

\* The same for a handler whose component is gone: the state setters do
\* nothing, setValue still writes localStorage.
FollowUpArrivesUnmounted ==
    /\ \E i \in DOMAIN orphaned :
           /\ \E response \in Responses("askFollowUpQuestion") :
                  IF Answered(response)
                  THEN /\ storedHistory' =
                              Persisted(UpdatedHistory(orphaned[i].history,
                                            NewEntry(entriesMade + 1,
                                                     orphaned[i].question,
                                                     response.data)))
                       /\ entriesMade' = entriesMade + 1
                  ELSE UNCHANGED << storedHistory, entriesMade >>
           /\ orphaned' = Without(orphaned, i)
    /\ UNCHANGED << appVars, besidesComponents >>

\* onBack: the suspended follow-up handlers go on without their component.
HandleBackToForm ==
    /\ currentView = "analysis"
    /\ currentView' = "form"
    /\ orphaned' = orphaned \o FollowUps(pending)
    /\ UnmountAnalysis
    /\ MountForm(financialProfile)
    /\ UNCHANGED << financialProfile, storedHistory, entriesMade,
                    besidesComponents >>

\* The page is loaded again: the profile comes back from localStorage, the
\* handlers of the page are gone.
Reload ==
    /\ currentView # "landing"
    /\ currentView' = "landing"
    /\ orphaned' = << >>
    /\ UnmountForm
    /\ UnmountAnalysis
    /\ UNCHANGED << financialProfile, storedHistory, entriesMade,
                    besidesComponents >>

AppInit ==
    /\ debts = << >>
    /\ callerDebts = debts
    /\ availablePayment = 0
    /\ StrategyAtRest
    /\ LibAtRest
    /\ now = PageLoadTime
    /\ configured \in BOOLEAN
    /\ requestCount = 0
    /\ lastRequestTime = 0
    /\ admitted = << >>
    /\ awaiting = << >>
    /\ settled = NoCall
    /\ AppAtRest

AppNext ==
    \/ HandleStartAnalysis
    \/ ViewPreviousAnalysis
    \/ UpdateIncome
    \/ UpdateExpenses
    \/ AddDebt
    \/ RemoveDebt
    \/ UpdateDebt
    \/ NextStep
    \/ PrevStep
    \/ HandleSubmit
    \/ RecommendationsArrive
    \/ HandleBackToForm
    \/ Reload

\* The application up to the follow-up conversation.
AppSpec == AppInit /\ [][AppNext]_vars

\* The profiles the follow-up conversation is checked with, as DebtForm
\* stores them.
StoredProfiles ==
    { [ monthlyIncome |-> Amount(300), expenses |-> spent,
        debts |-> << [ id |-> "d1", name |-> "Card", balance |-> Amount(500),
                       interestRate |-> 20, minimumPayment |-> Amount(50) ] >> ] :
          spent \in { 0, Amount(260) } }

\* The page is loaded with a profile in localStorage.
ConversationInit ==
    /\ debts = << >>
    /\ callerDebts = debts
    /\ availablePayment = 0
    /\ StrategyAtRest
    /\ LibAtRest
    /\ now = PageLoadTime
    /\ configured \in BOOLEAN
    /\ requestCount = 0
    /\ lastRequestTime = 0
    /\ admitted = << >>
    /\ awaiting = << >>
    /\ settled = NoCall
    /\ currentView = "landing"
    /\ financialProfile \in StoredProfiles
    /\ FormAtRest
    /\ AnalysisAtRest
    /\ ConversationAtRest

ConversationNext ==
    \/ ViewPreviousAnalysis
    \/ RecommendationsArrive
    \/ SetFollowUpQuestion
    \/ HandleFollowUpQuestion
    \/ FollowUpArrives
    \/ FollowUpArrivesUnmounted
    \/ HandleBackToForm
    \/ NextStep
    \/ HandleSubmit
    \/ Reload

\* The follow-up conversation of DebtAnalysis, for a stored profile.
ConversationSpec == ConversationInit /\ [][ConversationNext]_vars

\* useConversationHistory on its own: each call is made through the
\* functions of the latest render.
MaxConversations == 22

AddConversation ==
    /\ entriesMade < MaxConversations
    /\ \E userMessage \in QuestionChoices \ { "" } :
           history' = UpdatedHistory(history,
                          NewEntry(entriesMade + 1, userMessage, "text"))
    /\ storedHistory' = Persisted(history')
    /\ entriesMade' = entriesMade + 1
    /\ UNCHANGED << currentView, financialProfile, formVars, analyses,
                    aiRecommendations, isLoadingAI, followUpQuestion,
                    conversationResponse, pending, simulated, handled,
                    orphaned, besidesComponents >>

\* clearHistory: setHistory([])
ClearHistory ==
    /\ history' = << >>
    /\ storedHistory' = Persisted(history')
    /\ UNCHANGED << currentView, financialProfile, formVars, analyses,
                    aiRecommendations, isLoadingAI, followUpQuestion,
                    conversationResponse, pending, simulated, handled,
                    entriesMade, orphaned, besidesComponents >>

HistoryInit ==
    /\ debts = << >>
    /\ callerDebts = debts
    /\ availablePayment = 0
    /\ StrategyAtRest
    /\ LibAtRest
    /\ ServiceAtRest
    /\ AppAtRest

HistoryNext ==
    \/ AddConversation
    \/ ClearHistory

HistorySpec == HistoryInit /\ [][HistoryNext]_vars

(* ------------------------------------------------------------------ *)
(* Properties                                                          *)
(* ------------------------------------------------------------------ *)

Called == pc # "idle"

MinimumsOf(ds) == SumOver(ds, "minimumPayment")

\* The k-th record's balance does not exceed the one before it (the initial
\* total balance, for the first record).
NonIncreasingAt(k) ==
    paymentSchedule[k].balance <=
        (IF k = 1 THEN SumOver(sortedDebts, "balance")
         ELSE paymentSchedule[k - 1].balance)

\* C1: a strategy call fails with the insufficient-payment error exactly when
\* the minimum payments of the caller's debts add up to more than the
\* available payment; a failed call has simulated no period and returned
\* nothing.
C1_InsufficientPaymentError ==
    Called =>
        /\ (pc = "thrown") <=> (MinimumsOf(debts) > availablePayment)
        /\ pc = "thrown" =>
              /\ paymentSchedule = << >>
              /\ month = 1
              /\ result = NoResult

\* C1 witness: a call that failed, and the debts' minimums exceed the budget.
C1_Witness ==
    /\ pc = "thrown"
    /\ debts # << >>
    /\ MinimumsOf(debts) > availablePayment

\* The first debt, in priority order, whose balance is above epsilon.
FirstOwing(copies) ==
    CHOOSE k \in DOMAIN copies :
        /\ copies[k].balance > Epsilon
        /\ \A j \in 1..(k - 1) : copies[j].balance <= Epsilon

\* C2: in every simulated month with a positive extra amount and some debt
\* above epsilon, the first debt in priority order still above epsilon is
\* paid minimum + extra, and no other debt is paid more than its minimum.
C2_ExtraToFirstOwing ==
    [][ ( /\ pc = "loop"
          /\ month' = month + 1
          /\ availablePayment - totalMinimums > 0
          /\ SomeOwing(debtCopies) )
        => LET f == FirstOwing(debtCopies)
           IN  /\ payments'[f] = debtCopies[f].minimumPayment
                                  + (availablePayment - totalMinimums)
               /\ \A k \in DOMAIN debtCopies :
                     k # f => payments'[k] <= debtCopies[k].minimumPayment ]_vars

\* C3 as stated: for any debt list and sufficient budget, the schedule's
\* remaining balance never increases from one period to the next.
C3_BalanceNonIncreasing ==
    /\ paymentSchedule # << >> => NonIncreasingAt(Len(paymentSchedule))
    /\ pc = "returned" => \A k \in DOMAIN paymentSchedule : NonIncreasingAt(k)

\* Every debt above epsilon has a non-negative rate and a minimum payment of
\* at least its first month's interest, balance * rate / 100 / 12.
MinimumsCoverInterest(ds) ==
    \A k \in DOMAIN ds :
        ds[k].balance > Epsilon =>
            /\ ds[k].interestRate >= 0
            /\ ds[k].minimumPayment * 1200 >= ds[k].balance * ds[k].interestRate

\* C3, amended: when every debt's minimum payment covers its first month's
\* interest, the schedule's remaining balance never increases.
C3_NonIncreasingWhenCovered ==
    MinimumsCoverInterest(sortedDebts) => C3_BalanceNonIncreasing

\* C3 witness: a returned schedule of several periods for covered debts.
C3_Witness ==
    /\ pc = "returned"
    /\ MinimumsCoverInterest(sortedDebts)
    /\ Len(debts) = 2
    /\ Len(result.paymentSchedule) > 3
    /\ result.paymentSchedule[3].balance < result.paymentSchedule[2].balance

\* C4: with non-negative starting balances no debt's balance is ever below
\* zero, neither right after a payment nor at the end of a month, and every
\* record's remaining balance is non-negative.
C4_BalancesNonNegative ==
    (\A k \in DOMAIN debts : debts[k].balance >= 0) =>
        /\ \A k \in DOMAIN debtCopies : debtCopies[k].balance >= 0
        /\ \A k \in DOMAIN paidDown : paidDown[k] >= 0
        /\ paymentSchedule # << >> =>
              paymentSchedule[Len(paymentSchedule)].balance >= 0
        /\ pc = "returned" =>
              \A k \in DOMAIN result.paymentSchedule :
                  result.paymentSchedule[k].balance >= 0

\* C4 witness: a payment larger than what was owed brought a debt to zero.
C4_Witness ==
    /\ pc = "loop"
    /\ \E k \in DOMAIN debtCopies :
          /\ payments[k] > 0
          /\ paidDown[k] = 0
          /\ payments[k] > sortedDebts[k].minimumPayment
          /\ sortedDebts[k].balance > 0

\* An upper bound on the steps a call still takes: it is never negative and,
\* by C5, every step lowers it, so no call runs forever.
StepsLeft ==
    CASE pc = "idle" -> 600 + 2
      [] pc = "loop" -> 600 + 1 - Len(paymentSchedule)
      [] OTHER       -> 0

\* The record count, the month counter and the returned length stay within
\* the ceiling.
WithinCeiling ==
    /\ Len(paymentSchedule) <= MaxMonths
    /\ StepsLeft >= 0
    /\ Called => month = Len(paymentSchedule) + 1
    /\ pc = "returned" =>
          /\ Len(result.paymentSchedule) <= MaxMonths
          /\ ~SomeOwing(debtCopies) \/ Len(result.paymentSchedule) = MaxMonths

\* From the loop test, a month is simulated when some debt is above epsilon
\* and fewer than 600 months were simulated; otherwise the call returns.
StopsAsSoonAsPaid ==
    pc = "loop" =>
        IF /\ \E k \in DOMAIN debtCopies : debtCopies[k].balance > Epsilon
           /\ Len(paymentSchedule) < 600
        THEN pc' = "loop" /\ Len(paymentSchedule') = Len(paymentSchedule) + 1
        ELSE pc' = "returned" /\ paymentSchedule' = paymentSchedule

\* C5: with a sufficient budget the simulation terminates (every step lowers
\* a bounded count of the steps left) with at most 600 records; it stops as
\* soon as every balance is at most epsilon or after the 600th month, also
\* when a minimum does not cover the interest.
C5_TerminatesWithin600 ==
    /\ []WithinCeiling
    /\ [][StopsAsSoonAsPaid /\ StepsLeft' < StepsLeft]_vars

\* C5 witness: a call that returned at the ceiling with a debt whose minimum
\* payment is below its interest still owing.
C5_Witness ==
    /\ pc = "returned"
    /\ Len(result.paymentSchedule) = MaxMonths
    /\ \E k \in DOMAIN debtCopies :
          /\ debtCopies[k].balance > sortedDebts[k].balance
          /\ sortedDebts[k].minimumPayment * 1200
                < sortedDebts[k].balance * sortedDebts[k].interestRate

\* The call returned because every balance is at most epsilon, before the
\* ceiling.
PaidOffBeforeCeiling ==
    /\ pc = "returned"
    /\ ~SomeOwing(debtCopies)
    /\ month <= MaxMonths

\* C6 as stated: after a full payoff before the ceiling, debtOrder has as
\* many entries as there are input debts.
C6_OrderCoversAllDebts ==
    PaidOffBeforeCeiling => Len(result.debtOrder) = Len(debts)

\* C6, amended: after a full payoff before the ceiling, debtOrder has as many
\* entries as there are input debts whose starting balance was above epsilon.
C6_OrderCoversOwingDebts ==
    PaidOffBeforeCeiling =>
        Len(result.debtOrder) =
            Cardinality({ k \in DOMAIN debts : debts[k].balance > Epsilon })

\* C6 witness: two owing debts were paid off in different months.
C6_Witness ==
    /\ PaidOffBeforeCeiling
    /\ Len(result.debtOrder) = 2
    /\ Len(result.paymentSchedule) > 6

NoDuplicates(s) == \A j, k \in DOMAIN s : j # k => s[j] # s[k]

\* A debt's id enters debtOrder in exactly the step that takes its balance
\* from above epsilon to at most epsilon.
AppendedWhenFirstPaid ==
    \A k \in DOMAIN debtCopies :
        (k \in DOMAIN debtCopies') =>
            ( ( /\ Includes(debtOrder', debtCopies[k].id)
                /\ ~Includes(debtOrder, debtCopies[k].id) )
              <=>
              ( /\ debtCopies[k].balance > Epsilon
                /\ debtCopies'[k].balance <= Epsilon ) )

\* C7: debtOrder, during the simulation and in the result, holds each id at
\* most once, and an id is appended in the period in which the debt's
\* balance first becomes at most epsilon, neither earlier nor later.
C7_OrderOnceWhenPaid ==
    /\ [](NoDuplicates(debtOrder) /\
          (pc = "returned" => NoDuplicates(result.debtOrder)))
    /\ [][AppendedWhenFirstPaid]_vars

\* C7 witness: the second debt in priority order was paid off before the
\* first, which still owes.
C7_Witness ==
    /\ pc = "loop"
    /\ Len(debtCopies) = 2
    /\ debtOrder = << debtCopies[2].id >>
    /\ sortedDebts[2].balance > Epsilon
    /\ debtCopies[1].balance > Epsilon

\* C8: in every returned result totalInterest is the sum of the records'
\* interest and payoffTimeMonths is the number of records.
C8_TotalsMatchSchedule ==
    pc = "returned" =>
        /\ result.totalInterest = SumOver(result.paymentSchedule, "interest")
        /\ result.payoffTimeMonths = Len(result.paymentSchedule)

\* C8 witness: a returned result of several periods with interest paid.
C8_Witness ==
    /\ pc = "returned"
    /\ Len(result.paymentSchedule) > 2
    /\ result.totalInterest > 0
    /\ result.paymentSchedule[1].interest # result.paymentSchedule[2].interest

\* Position of the debt with this id in the caller's array.
InputIndex(id) == CHOOSE k \in DOMAIN debts : debts[k].id = id

\* The key each policy sorts by, ascending: the balance, the negated rate,
\* and 0.4 * (balance / 10000) + 0.6 * rate (times 10 * 10000 * 100).
PolicyKey(d) ==
    CASE strategy = "snowball"  -> d.balance
      [] strategy = "avalanche" -> 0 - d.interestRate
      [] strategy = "hybrid"    -> 4 * d.balance + 6000000 * d.interestRate

\* C9: the list handed to the simulation is sorted by the policy's key, and
\* for snowball and avalanche debts with equal keys keep their input order.
C9_SortedByPolicyKey ==
    strategy \in Strategies =>
        \A j, k \in DOMAIN sortedDebts :
            j < k =>
                /\ PolicyKey(sortedDebts[j]) <= PolicyKey(sortedDebts[k])
                /\ ( /\ strategy \in { "snowball", "avalanche" }
                     /\ PolicyKey(sortedDebts[j]) = PolicyKey(sortedDebts[k]) )
                   => InputIndex(sortedDebts[j].id) < InputIndex(sortedDebts[k].id)

\* C9 witness: avalanche moved a higher-rate debt in front of a lower-rate
\* one that came first in the input.
C9_Witness ==
    /\ strategy = "avalanche"
    /\ Len(debts) = 2
    /\ debts[1].interestRate < debts[2].interestRate
    /\ sortedDebts = << debts[2], debts[1] >>

\* How many debts of the list carry this id.
CountId(ds, id) == Cardinality({ k \in DOMAIN ds : ds[k].id = id })

\* C10: for each policy the ordered list is a permutation of the input: the
\* same ids, each as often as in the input.
C10_OrderIsPermutation ==
    strategy \in Strategies =>
        /\ Len(sortedDebts) = Len(debts)
        /\ \A d \in Range(debts) \cup Range(sortedDebts) :
              CountId(sortedDebts, d.id) = CountId(debts, d.id)

\* C10 witness: hybrid reordered a list of two debts.
C10_Witness ==
    /\ strategy = "hybrid"
    /\ Len(debts) = 2
    /\ sortedDebts = << debts[2], debts[1] >>

\* C11: a strategy call leaves the caller's array and records as they were
\* passed in, in order and in every field, while it runs, when it returns
\* and when it fails with the insufficient-payment error.
C11_CallerDebtsUnchanged == callerDebts = debts

\* C11 witness: a snowball or avalanche call returned after reordering the
\* debts and paying down its copies; another call failed.
C11_Witness ==
    /\ pc = "returned"
    /\ strategy \in { "snowball", "avalanche" }
    /\ Len(debts) = 2
    /\ sortedDebts = << debts[2], debts[1] >>
    /\ \E k \in DOMAIN debtCopies : debtCopies[k].balance < sortedDebts[k].balance
    /\ callerDebts = debts

\* The stepwise simulation and the one-step value of a call agree.
ReturnedValueAgrees ==
    pc = "returned" => result = StrategyValue(debts, availablePayment, strategy)

\* C12: whenever the simulation accepts the debts and the payment, the
\* avalanche strategy's totalInterest is at most that of the snowball and of
\* the hybrid strategy for the same debts and payment.
C12_AvalancheMinimizesInterest ==
    (pc = "returned" /\ strategy = "avalanche") =>
        \A other \in { "snowball", "hybrid" } :
            result.totalInterest <=
                StrategyValue(debts, availablePayment, other).totalInterest

\* The "too low to cover interest" message is among errors for debt number k.
ReportedTooLow(k) == Includes(errors, Message(k, TooLowMessage))

\* C13: validateDebts reports "Minimum payment is too low to cover interest"
\* for a debt exactly when its minimum payment does not exceed
\* balance x (annual rate / 100 / 12); the debt with balance 1000, rate 24 and
\* minimum payment 15 is reported.
C13_TooLowReportedExactly ==
    called = "validateDebts" =>
        \A k \in DOMAIN debts :
            /\ ReportedTooLow(k) <=>
                   ~(debts[k].minimumPayment * 12 * 100
                         > debts[k].balance * debts[k].interestRate)
            /\ (/\ debts[k].balance = Amount(1000)
                /\ debts[k].interestRate = 24
                /\ debts[k].minimumPayment = Amount(15)) => ReportedTooLow(k)

C13_Witness ==
    /\ called = "validateDebts"
    /\ Len(debts) = 2
    /\ debts[1].id = "J"
    /\ debts[2].id = "V"
    /\ errors = << Message(2, TooLowMessage) >>

\* C14: calculateDebtMetrics on a debt list whose total balance is zero, the
\* empty list included, returns (does not throw) and reports
\* averageInterestRate as NaN.
C14_ZeroBalanceAverageIsNaN ==
    (called = "calculateDebtMetrics" /\ SumOver(debts, "balance") = 0) =>
        /\ metrics # NoMetrics
        /\ metrics.averageInterestRate = NaN

C14_Witness ==
    /\ called = "calculateDebtMetrics"
    /\ debts # << >>
    /\ SumOver(debts, "balance") = 0
    /\ metrics.averageInterestRate = NaN
    /\ metrics.totalMinimumPayments > 0

\* C15: calculateDebtMetrics called with monthlyIncome = 0 returns and
\* reports debtToIncomeRatio as NaN for every debt list, lists with positive
\* total minimum payments included.
C15_ZeroIncomeRatioIsNaN ==
    (called = "calculateDebtMetrics" /\ monthlyIncome = 0) =>
        /\ metrics # NoMetrics
        /\ metrics.debtToIncomeRatio = NaN

\* The admissions in the window of RequestInterval milliseconds ending at t.
AdmittedInWindow(t) ==
    Cardinality({ i \in DOMAIN admitted :
                      admitted[i] > t - RequestInterval /\ admitted[i] <= t })

\* C16: whatever the calls and their arrival times, overlapping calls
\* included, no window of 60 000 ms holds more than 10 requests admitted by
\* the rate limiter and forwarded to the model.
C16_AtMostTenPerWindow ==
    \A i \in DOMAIN admitted :
        AdmittedInWindow(admitted[i]) <= MaxRequestsPerMinute

C16_Witness ==
    /\ Len(admitted) = MaxRequestsPerMinute
    /\ admitted[1] < admitted[MaxRequestsPerMinute]
    /\ awaiting # << >>
    /\ settled # NoCall
    /\ settled.cause = "rate limited"

BudgetInsufficient ==
    financialProfile.monthlyIncome - financialProfile.expenses
        < SumOver(financialProfile.debts, "minimumPayment")

\* C18: while DebtAnalysis shows a profile whose available payment (income
\* minus expenses) is below the sum of the minimum payments, analyses holds
\* no result for any strategy and no recommendation request has been started
\* from a schedule.
C18_NoScheduleWhenInsufficient ==
    (currentView = "analysis" /\ BudgetInsufficient) =>
        /\ analyses = NoAnalyses
        /\ \A i \in DOMAIN pending : pending[i].kind # "recommendations"
        /\ handled.kind # "recommendations"
        /\ aiRecommendations = ""

C18_Witness ==
    /\ currentView = "analysis"
    /\ configured
    /\ BudgetInsufficient
    /\ financialProfile.monthlyIncome = Amount(300)
    /\ financialProfile.expenses = Amount(260)
    /\ analyses = NoAnalyses
    /\ simulated = << financialProfile.debts >>

\* A debt list validateDebts has nothing to report about.
PassesValidation(ds) ==
    /\ ds # << >>
    /\ \A k \in DOMAIN ds :
           /\ ds[k].balance > 0
           /\ ds[k].interestRate >= 0
           /\ ds[k].interestRate <= 50
           /\ ds[k].minimumPayment > 0
           /\ ds[k].minimumPayment * 1200 > ds[k].balance * ds[k].interestRate

\* C19: the strategies are only ever run on a non-empty debt list about
\* which validateDebts reports nothing: a profile is stored (onSubmit) only
\* with such a list, and the analysis view shows only a stored profile.
C19_OnlyValidatedDebtsSimulated ==
    /\ financialProfile # NoProfile => PassesValidation(financialProfile.debts)
    /\ \A i \in DOMAIN simulated : PassesValidation(simulated[i])
    /\ currentView = "analysis" =>
           /\ financialProfile # NoProfile
           /\ simulated = << financialProfile.debts >>

C19_Witness ==
    /\ currentView = "analysis"
    /\ simulated # << >>
    /\ simulated[1][1].interestRate = 0
    /\ simulated[1][1].minimumPayment = Amount(50)
    /\ analyses # NoAnalyses

\* C20: a failed AI request (service not configured, rate limited, model
\* error) leaves the strategy results computed for the profile in place and
\* unchanged; it only sets the AI text to an error message.
C20_AnalysesSurviveAIFailure ==
    currentView = "analysis" =>
        /\ analyses = ComputedAnalyses(financialProfile)
        /\ (~configured /\ analyses # NoAnalyses) =>
               aiRecommendations = NotAvailableMessage
        /\ (handled.kind = "recommendations" /\ ~handled.response.success) =>
               aiRecommendations = UnableMessage(handled.response)
        /\ (handled.kind = "followUp" /\ ~handled.response.success) =>
               conversationResponse = ErrorMessage(handled.response)

C20_Witness ==
    /\ currentView = "analysis"
    /\ analyses # NoAnalyses
    /\ handled.kind = "followUp"
    /\ handled.response = Failure(FailedMessage("askFollowUpQuestion"))
    /\ conversationResponse = "Error: Failed to process your question."
    /\ aiRecommendations =
           "Unable to load AI recommendations: Rate limit exceeded. Please wait a moment before requesting more recommendations."

\* The entry at position i of the later history is the one i places from
\* the end of the earlier history with the new entry appended.
KeepsLatest(earlier, later) ==
    \A i \in 1..(Len(later) - 1) :
        later[i] = earlier[Len(earlier) + 1 - (Len(later) - i)]

PersistedEqualsInMemory ==
    /\ Len(storedHistory) = Len(history)
    /\ \A i \in DOMAIN history :
           /\ storedHistory[i].timestamp.time = history[i].timestamp.time
           /\ storedHistory[i].userMessage = history[i].userMessage
           /\ storedHistory[i].aiResponse = history[i].aiResponse

\* C30: no conversation entry is lost to interleaving: once every follow-up
\* in flight has been handled, each entry made so far is in the persisted
\* history (fewer than 20 are ever made here), and while DebtAnalysis is
\* shown the persisted history equals the one in memory.
C30_NoEntryLost ==
    /\ (FollowUps(pending) = << >> /\ orphaned = << >>) =>
           \A serial \in 1..entriesMade :
               \E i \in DOMAIN storedHistory :
                   storedHistory[i].timestamp.time = serial
    /\ currentView = "analysis" => PersistedEqualsInMemory

\* The interest of a month on a balance at an annual rate in percent, to
\* the hundredth below.
IsMonthlyInterest(interest, balance, annualRate) ==
    /\ 1200 * interest <= balance * annualRate
    /\ balance * annualRate < 1200 * (interest + 1)

\* In a simulated month, debt k (above epsilon) is charged the month's
\* interest on its balance and its balance goes down by
\* min(payment - interest, balance), to the balance given.
PaidDownTo(k, newBalance) ==
    \E interest \in 0..debtCopies[k].balance :
        /\ IsMonthlyInterest(interest, debtCopies[k].balance,
                             debtCopies[k].interestRate)
        /\ LET principal == IF payments'[k] - interest < debtCopies[k].balance
                            THEN payments'[k] - interest
                            ELSE debtCopies[k].balance
           IN  newBalance = debtCopies[k].balance - principal

\* The example: one debt of 1200 at 12% with minimum payment 200, budget 200.
ExampleRun ==
    /\ Len(debts) = 1
    /\ debts[1].balance = Amount(1200)
    /\ debts[1].interestRate = 12
    /\ debts[1].minimumPayment = Amount(200)
    /\ availablePayment = Amount(200)

ExampleFigures ==
    ExampleRun =>
        /\ paymentSchedule # << >> =>
               /\ paymentSchedule[1].interest = Amount(12)
               /\ paymentSchedule[1].principal = Amount(188)
               /\ paymentSchedule[1].balance = Amount(1012)
        /\ pc = "returned" => result.debtOrder = << debts[1].id >>

\* C22 as stated: in each simulated month every debt above epsilon is
\* charged balance x rate / 12 / 100 and its new balance is the old one less
\* min(payment - interest, balance); the example run gives interest 12,
\* principal 188, balance 1012 in month 1 and the payoff order [its id].
C22_MonthlyAmortization ==
    /\ [][ (pc = "loop" /\ month' = month + 1) =>
              \A k \in DOMAIN debtCopies :
                  debtCopies[k].balance > Epsilon =>
                      PaidDownTo(k, debtCopies'[k].balance) ]_vars
    /\ []ExampleFigures

\* C22 with the write-off: the balance after the subtraction is the old one
\* less min(payment - interest, balance), and the new balance is that, or 0
\* when that is at most epsilon.
C22_MonthlyAmortizationClamped ==
    /\ [][ (pc = "loop" /\ month' = month + 1) =>
              \A k \in DOMAIN debtCopies :
                  debtCopies[k].balance > Epsilon =>
                      /\ PaidDownTo(k, paidDown'[k])
                      /\ debtCopies'[k].balance =
                             IF paidDown'[k] <= Epsilon THEN 0 ELSE paidDown'[k] ]_vars
    /\ []ExampleFigures

C22_Witness ==
    /\ ExampleRun
    /\ pc = "returned"
    /\ result.debtOrder = << "C" >>
    /\ result.paymentSchedule[1].balance = Amount(1012)
    /\ result.payoffTimeMonths = 7

\* How many of the messages returned name debt number k with this problem.
Reported(k, problem) ==
    Cardinality({ i \in DOMAIN errors :
                    errors[i] = [debt |-> k, problem |-> problem] })

\* The four checks of a debt, each with the problem reported when it fails.
Checks(debt) ==
    { [ passes  |-> debt.balance > 0,
        problem |-> "Balance must be greater than 0" ],
      [ passes  |-> debt.interestRate >= 0 /\ debt.interestRate <= 50,
        problem |-> "Interest rate must be between 0% and 50%" ],
      [ passes  |-> debt.minimumPayment > 0,
        problem |-> "Minimum payment must be greater than 0" ],
      [ passes  |-> debt.minimumPayment * 1200 > debt.balance * debt.interestRate,
        problem |-> "Minimum payment is too low to cover interest" ] }

\* C23: validateDebts returns a list, which is empty exactly when every debt
\* has balance > 0, a rate within [0, 50], a minimum payment > 0 and a
\* minimum payment greater than balance x monthly rate; each failed check of
\* each debt contributes exactly one message, naming the debt by its position
\* counted from 1, and nothing else is returned.
C23_OneMessagePerViolation ==
    called = "validateDebts" =>
        /\ errors = << >> <=>
               \A k \in DOMAIN debts : \A check \in Checks(debts[k]) : check.passes
        /\ \A k \in DOMAIN debts : \A check \in Checks(debts[k]) :
               Reported(k, check.problem) = IF check.passes THEN 0 ELSE 1
        /\ \A i \in DOMAIN errors :
               /\ errors[i].debt \in DOMAIN debts
               /\ \E check \in Checks(debts[errors[i].debt]) :
                      errors[i].problem = check.problem

C23_Witness ==
    /\ called = "validateDebts"
    /\ Len(debts) = 2
    /\ debts[1].id = "F"
    /\ debts[2].id = "Z"
    /\ Len(errors) = 3
    /\ errors[3] = [debt |-> 2, problem |-> "Balance must be greater than 0"]

\* The messages of a rate-limited call.
RateLimitExceeded ==
    { "Rate limit exceeded. Please wait a moment before requesting more recommendations.",
      "Rate limit exceeded. Please wait before asking another question." }

\* C24: a call the rate limiter rejects resolves to {success: false} with
\* a 'Rate limit exceeded' message and never reaches the model; a call made
\* while the service is not configured fails without the rate limiter being
\* consulted, so an unconfigured service keeps its counter and its time at
\* their initial values and admits nothing.
C24_RateLimitSurfaced ==
    /\ [](settled # NoCall =>
              /\ settled.cause = "rate limited" =>
                     /\ settled.outcome = "resolved"
                     /\ settled.value.success = FALSE
                     /\ settled.value.data = ""
                     /\ settled.value.error \in RateLimitExceeded
                     /\ settled.modelCalls = 0
              /\ settled.cause = "not configured" =>
                     /\ ~configured
                     /\ settled.outcome = "resolved"
                     /\ settled.value.success = FALSE
                     /\ settled.modelCalls = 0)
    /\ [](~configured =>
              /\ requestCount = 0
              /\ lastRequestTime = 0
              /\ admitted = << >>
              /\ awaiting = << >>)
    /\ [][(settled' # settled /\ settled'.cause = "rate limited") =>
              /\ awaiting' = awaiting
              /\ admitted' = admitted]_vars

C24_Witness ==
    /\ configured
    /\ settled # NoCall
    /\ settled.cause = "rate limited"
    /\ settled.method = "askFollowUpQuestion"
    /\ settled.value.error =
           "Rate limit exceeded. Please wait before asking another question."
    /\ requestCount = 10
    /\ Len(awaiting) = 1

\* The admissions in the 60 000 ms up to t, both ends included.
AdmittedWithin(t) ==
    Cardinality({ i \in DOMAIN admitted :
                      admitted[i] >= t - 60000 /\ admitted[i] <= t })

\* C25: the cap is enforced over a rolling minute: a request is rejected
\* only if 10 requests were admitted in the 60 000 ms before it.
C25_RollingWindow ==
    [][(settled' # settled /\ settled'.cause = "rate limited") =>
          AdmittedWithin(now) >= 10]_vars

\* C26: a rejected request leaves requestCount and lastRequestTime as they
\* were, and no request is rejected more than 60 000 ms after the last
\* admitted one (the time lastRequestTime holds): it is admitted, as the
\* first of a new count.
C26_RejectionKeepsLimiter ==
    /\ [][(settled' # settled /\ settled'.cause = "rate limited") =>
              /\ requestCount' = requestCount
              /\ lastRequestTime' = lastRequestTime
              /\ now - lastRequestTime <= 60000]_vars
    /\ [](admitted # << >> => lastRequestTime = admitted[Len(admitted)])
    /\ [][Len(awaiting') > Len(awaiting) =>
              /\ lastRequestTime' = now
              /\ requestCount' = IF now - lastRequestTime > 60000
                                 THEN 1 ELSE requestCount + 1]_vars

C26_Witness ==
    /\ settled # NoCall
    /\ settled.cause = "rate limited"
    /\ requestCount = 1
    /\ lastRequestTime = now
    /\ Len(admitted) = 1

\* The balance the schedule starts from: the total before month 1.
BalanceBefore(n) ==
    IF n = 1 THEN SumOver(debts, "balance") ELSE paymentSchedule[n - 1].balance

\* C27: for a debt list validateDebts has nothing to report about and an
\* available payment of at least the sum of the minimum payments, each
\* simulated month lowers the balance of every debt that is above epsilon,
\* and every record of the schedule shows a lower remaining balance than
\* the one before it (the first, lower than the initial total).
C27_BalancesStrictlyDecrease ==
    /\ [][ (PassesValidation(debts) /\ pc = "loop" /\ month' = month + 1) =>
              \A k \in DOMAIN debtCopies :
                  debtCopies[k].balance > Epsilon =>
                      debtCopies'[k].balance < debtCopies[k].balance ]_vars
    /\ []( PassesValidation(debts) =>
              \A n \in DOMAIN paymentSchedule :
                  paymentSchedule[n].balance < BalanceBefore(n) )

C27_Witness ==
    /\ pc = "returned"
    /\ PassesValidation(debts)
    /\ Len(debts) = 2
    /\ debts[1].id = "B"
    /\ strategy = "snowball"
    /\ Len(result.paymentSchedule) > 12
    /\ result.paymentSchedule[12].balance < result.paymentSchedule[11].balance
    /\ result.paymentSchedule[Len(result.paymentSchedule)].balance = 0

\* C28: for debts with positive minimum payments and a sufficient budget,
\* every record of the schedule has totalPayment = principal + interest and
\* totalPayment at most the available payment, the payments of a month sum
\* to at most the available payment, and the result's monthlyPayment is the
\* available payment passed in.
C28_PaymentsWithinBudget ==
    (\A k \in DOMAIN debts : debts[k].minimumPayment > 0) =>
        /\ \A n \in DOMAIN paymentSchedule :
               /\ paymentSchedule[n].totalPayment =
                      paymentSchedule[n].principal + paymentSchedule[n].interest
               /\ paymentSchedule[n].totalPayment <= availablePayment
        /\ SumOver([k \in DOMAIN payments |-> [paid |-> payments[k]]], "paid")
               <= availablePayment
        /\ pc = "returned" =>
               /\ result.monthlyPayment = availablePayment
               /\ result.paymentSchedule = paymentSchedule

C28_Witness ==
    /\ pc = "returned"
    /\ Len(debts) = 2
    /\ availablePayment = Amount(200)
    /\ result.monthlyPayment = Amount(200)
    /\ result.paymentSchedule[1].totalPayment = Amount(200)
    /\ result.paymentSchedule[Len(result.paymentSchedule)].totalPayment < Amount(200)
    /\ result.paymentSchedule[Len(result.paymentSchedule)].interest > 0

\* C29: the recommendedPayment calculateDebtMetrics returns is never less
\* than its totalMinimumPayments, and no strategy called on the same debts
\* with it as the available payment throws the insufficient-payment error.
C29_RecommendedNeverInsufficient ==
    /\ called = "calculateDebtMetrics" =>
           ~Greater(metrics.totalMinimumPayments, metrics.recommendedPayment)
    /\ pc # "thrown"

====
